---- MODULE Spec2Model ----
(***************************************************************************)
(* Vigenere cipher over a 192-symbol dictionary (src/src/cipher.rs).       *)
(*                                                                         *)
(* Characters are Unicode scalar values, modelled by their codepoints.     *)
(* A Rust String / Vec<char> is a sequence of codepoints; array indices    *)
(* keep the source's 0-based values and are shifted by one on access.      *)
(* A Result<_, ErrorCode> is a record [kind, val]: kind is "Ok",           *)
(* "InvalidChar" or "InvalidIndex", and "Panic" stands for a call that     *)
(* aborts instead of returning; val is always a sequence (the string, the  *)
(* single char / index, or the payload of the error).                      *)
(***************************************************************************)
EXTENDS Integers, Sequences, FiniteSets

VARIABLES pc, msg, key, enc, enc2, dec, binding, matrix, r, acc

vars == <<pc, msg, key, enc, enc2, dec, binding, matrix, r, acc>>

cipherVars == <<msg, key, enc, enc2, dec>>

tableVars == <<binding, matrix, r, acc>>

(***************************************************************************)
(* Bounds of the explored inputs.                                          *)
(***************************************************************************)
MaxMsgLen == 3

MaxKeyLen == 2

\* '!' (index 0), '~' (index 93), '\r' (index 191), and two characters
\* outside the dictionary: BEL (U+0007) and NBSP (U+00A0).
InputChars == {33, 126, 13, 7, 160}

RECURSIVE SeqsUpTo(_, _)
SeqsUpTo(S, n) ==
    IF n = 0 THEN {<<>>}
    ELSE LET shorter == SeqsUpTo(S, n - 1)
         IN  shorter \cup {Append(s, x) : s \in {t \in shorter : Len(t) = n - 1}, x \in S}

(***************************************************************************)
(* Results.                                                                *)
(***************************************************************************)
Ok(v) == [kind |-> "Ok", val |-> v]

InvalidChar(ch) == [kind |-> "InvalidChar", val |-> <<ch>>]

InvalidIndex(index) == [kind |-> "InvalidIndex", val |-> <<index>>]

Panic == [kind |-> "Panic", val |-> <<>>]

NotRun == [kind |-> "NotRun", val |-> <<>>]

(***************************************************************************)
(* The dictionary.                                                         *)
(***************************************************************************)
SIZE == 192

CodeRange(a, b) == [i \in 1..(b - a + 1) |-> a + i - 1]

\* The raw string literal: '!'..'~', then the space, then U+00A1..U+00FF.
DictLiteral == CodeRange(33, 126) \o <<32>> \o CodeRange(161, 255)

\* the two pushes are left out: the array keeps its initial spaces at the end
DictWrap_new_NoPush ==
    [idx \in 1..SIZE |-> IF idx <= Len(DictLiteral) THEN DictLiteral[idx] ELSE 32]

\* dict.push('\n'); dict.push('\r'); then copied over an array of SIZE spaces.
DictWrap_new ==
    LET dict == (DictLiteral \o <<10>>) \o <<13>>
    IN  [idx \in 1..SIZE |-> IF idx <= Len(dict) THEN dict[idx] ELSE 32]

(***************************************************************************)
(* The Vigenere matrix.  acc is the position of the cyclic iterator over   *)
(* the dictionary: next() yields binding[acc] and advances by one, modulo  *)
(* the dictionary's length.                                                *)
(***************************************************************************)
CycleNext(p, len) == (p + 1) % len

\* The loops `for i in lo..hi` below run their iterations in order, each on
\* the state the previous one left.  A range is split in halves, and the state
\* after the first half is bound as a value before the second half starts, so
\* that the evaluation depth stays logarithmic in hi - lo.

\* matrix.0[r][c] = *acc.next().unwrap(), on the state <<row so far, position
\* of the iterator>>.
ReadNext(dictArr, c, s) ==
    <<Append(s[1], dictArr[s[2] + 1]), CycleNext(s[2], Len(dictArr))>>

\* `for c in lo..hi { ReadNext }`
RECURSIVE ColLoop(_, _, _, _)
ColLoop(dictArr, lo, hi, s) ==
    IF lo >= hi THEN s
    ELSE IF hi = lo + 1 THEN ReadNext(dictArr, lo, s)
    ELSE LET mid == (lo + hi) \div 2
         IN  CHOOSE out \in {ColLoop(dictArr, mid, hi, left) :
                             left \in {ColLoop(dictArr, lo, mid, s)}} : TRUE

\* The inner loop over c: one row read from the iterator starting at p.
\* Returns <<row, position of the iterator after it>>.
FillCols(dictArr, p) == ColLoop(dictArr, 0, SIZE, <<<<>>, p>>)

NextRowStart_NoSkip(p, len) == p

\* The acc.next() after each row: one element is skipped.
NextRowStart(p, len) == CycleNext(p, len)

\* One iteration of the loop over r, on the state <<rows so far, position of
\* the iterator>>.
OneRow(dictArr, row, s) ==
    LET filled == FillCols(dictArr, s[2])
    IN  <<Append(s[1], filled[1]), NextRowStart(filled[2], Len(dictArr))>>

\* `for r in lo..hi { OneRow }`
RECURSIVE RowLoop(_, _, _, _)
RowLoop(dictArr, lo, hi, s) ==
    IF lo >= hi THEN s
    ELSE IF hi = lo + 1 THEN OneRow(dictArr, lo, s)
    ELSE LET mid == (lo + hi) \div 2
         IN  CHOOSE out \in {RowLoop(dictArr, mid, hi, left) :
                             left \in {RowLoop(dictArr, lo, mid, s)}} : TRUE

\* The outer loop over r, from a fresh iterator.
FillRows(dictArr) == RowLoop(dictArr, 0, SIZE, <<<<>>, 0>>)

VigMatrixWrap_new == FillRows(DictWrap_new)[1]

(***************************************************************************)
(* Key completion.                                                         *)
(***************************************************************************)
RECURSIVE complete_key_loop(_, _, _, _, _)
complete_key_loop(k, msg_size, n, p, new_key) ==
    IF n = msg_size THEN Ok(new_key)
    ELSE IF Len(k) = 0 THEN Panic   \* next() of an empty cycle is None: unwrap panics
    ELSE complete_key_loop(k, msg_size, n + 1, CycleNext(p, Len(k)), Append(new_key, k[p + 1]))

RECURSIVE pad_loop(_, _, _, _, _)
pad_loop(k, msg_size, n, p, new_key) ==
    IF n = msg_size THEN Ok(new_key)
    ELSE IF Len(k) = 0 THEN pad_loop(k, msg_size, n + 1, p, Append(new_key, 32))
    ELSE pad_loop(k, msg_size, n + 1, CycleNext(p, Len(k)), Append(new_key, k[p + 1]))

\* unwrap_or(' ') in place of unwrap()
complete_key_unwrap_or(k, msg_size) == pad_loop(k, msg_size, 0, 0, <<>>)

\* the key is extended by repeating its last character, not by cycling
complete_key_repeat_last(k, msg_size) ==
    IF Len(k) = 0 /\ msg_size > 0 THEN Panic
    ELSE Ok([i \in 1..msg_size |-> IF i <= Len(k) THEN k[i] ELSE k[Len(k)]])

complete_key(k, msg_size) == complete_key_loop(k, msg_size, 0, 0, <<>>)

(***************************************************************************)
(* Lookups in the matrix.                                                  *)
(***************************************************************************)
Min(S) == CHOOSE x \in S : \A y \in S : x <= y

Max(S) == CHOOSE x \in S : \A y \in S : x >= y

\* The columns of a row that hold ch, as `row.iter().enumerate()` meets them.
Matches(row, ch) == {index \in 0..(Len(row) - 1) : row[index + 1] = ch}

\* a character that is not found gets index 0 instead of an error
index_finder_default(ch, mat) ==
    IF Matches(mat[1], ch) = {} THEN Ok(<<0>>) ELSE Ok(<<Min(Matches(mat[1], ch))>>)

\* The first index of row 0 that holds ch is returned.
index_finder(ch, mat) ==
    IF Matches(mat[1], ch) = {} THEN InvalidChar(ch) ELSE Ok(<<Min(Matches(mat[1], ch))>>)

\* the enumeration starts at 1: index 0 is never matched
char_finder_from_one(index, mat) ==
    IF index \in 1..(Len(mat[1]) - 1) THEN Ok(<<mat[1][index + 1]>>) ELSE InvalidIndex(index)

\* The scan over row 0 returns the element whose position is index.
char_finder(index, mat) ==
    IF index \in 0..(Len(mat[1]) - 1) THEN Ok(<<mat[1][index + 1]>>) ELSE InvalidIndex(index)

vig_matcher(mat, msg_char, key_char) ==
    LET index_col == index_finder(msg_char, mat)
    IN  IF index_col.kind # "Ok" THEN index_col
        ELSE LET index_row == index_finder(key_char, mat)
             IN  IF index_row.kind # "Ok" THEN index_row
                 ELSE Ok(<<mat[index_row.val[1] + 1][index_col.val[1] + 1]>>)

(***************************************************************************)
(* encode                                                                  *)
(***************************************************************************)
RECURSIVE encode_loop(_, _, _, _, _)
encode_loop(mat, msg_chars, key_chars, i, encrypted_msg) ==
    IF i = Len(msg_chars) THEN Ok(encrypted_msg)
    ELSE IF i >= Len(key_chars) THEN Panic   \* key_chars[i] out of bounds
    ELSE LET m == vig_matcher(mat, msg_chars[i + 1], key_chars[i + 1])
         IN  IF m.kind # "Ok" THEN m
             ELSE encode_loop(mat, msg_chars, key_chars, i + 1, Append(encrypted_msg, m.val[1]))

encode(m, k, vig_mat) ==
    LET msg_size == Len(m)
        key_size == Len(k)
        key_e == IF msg_size # key_size THEN complete_key(k, msg_size) ELSE Ok(k)
    IN  IF key_e.kind # "Ok" THEN key_e
        ELSE encode_loop(vig_mat, m, key_e.val, 0, <<>>)

(***************************************************************************)
(* decode                                                                  *)
(***************************************************************************)
\* the scan stops one column early
scan_row_short(mat, key_index, ch) ==
    LET hits == {c \in Matches(mat[key_index + 1], ch) : c < Len(mat[key_index + 1]) - 1}
    IN  IF hits = {} THEN 0 ELSE Max(hits)

\* The scan of row key_index: msg_index starts at 0 and is overwritten at every
\* matching column, so the last match wins and 0 is left when none does.
scan_row(mat, key_index, ch) ==
    LET hits == Matches(mat[key_index + 1], ch)
    IN  IF hits = {} THEN 0 ELSE Max(hits)

RECURSIVE decode_loop(_, _, _, _, _)
decode_loop(mat, msg_chars, key_chars, letter, decrypted_msg) ==
    IF letter = Len(msg_chars) THEN Ok(decrypted_msg)
    ELSE IF letter >= Len(key_chars) THEN Panic   \* key_chars[letter] out of bounds
    ELSE LET key_index == index_finder(key_chars[letter + 1], mat)
         IN  IF key_index.kind # "Ok" THEN key_index
             ELSE LET msg_index == scan_row(mat, key_index.val[1], msg_chars[letter + 1])
                      found == char_finder(msg_index, mat)
                  IN  IF found.kind # "Ok" THEN found
                      ELSE decode_loop(mat, msg_chars, key_chars, letter + 1,
                                       Append(decrypted_msg, found.val[1]))

decode(enc_msg, k, vig_mat) ==
    LET msg_size == Len(enc_msg)
        key_size == Len(k)
        key_e == IF msg_size # key_size THEN complete_key(k, msg_size) ELSE Ok(k)
    IN  IF key_e.kind # "Ok" THEN key_e
        ELSE decode_loop(vig_mat, enc_msg, key_e.val, 0, <<>>)

(***************************************************************************)
(* Specification of the cipher calls.  The caller builds the matrix with   *)
(* VigMatrixWrap::new() and passes it (by copy) to every call.             *)
(***************************************************************************)
Init ==
    /\ pc = "start"
    /\ msg \in SeqsUpTo(InputChars, MaxMsgLen)
    /\ key \in SeqsUpTo(InputChars, MaxKeyLen)
    /\ enc = NotRun
    /\ enc2 = NotRun
    /\ dec = NotRun
    /\ binding = <<>>
    /\ matrix = <<>>
    /\ r = 0
    /\ acc = 0

\* encode(msg, key, vig_mat)
Encode ==
    /\ pc = "start"
    /\ enc' = encode(msg, key, VigMatrixWrap_new)
    /\ pc' = "encoded"
    /\ UNCHANGED <<msg, key, enc2, dec>>
    /\ UNCHANGED tableVars

\* decode(&encoded, key, vig_mat) on the output of encode
DecodeEncoded ==
    /\ pc = "encoded"
    /\ enc.kind = "Ok"
    /\ dec' = decode(enc.val, key, VigMatrixWrap_new)
    /\ pc' = "roundtrip"
    /\ UNCHANGED <<msg, key, enc, enc2>>
    /\ UNCHANGED tableVars

\* encode(msg, key + key, vig_mat), after encode(msg, key, vig_mat)
EncodeDoubled ==
    /\ pc = "encoded"
    /\ enc2' = encode(msg, key \o key, VigMatrixWrap_new)
    /\ pc' = "doubled"
    /\ UNCHANGED <<msg, key, enc, dec>>
    /\ UNCHANGED tableVars

\* decode(msg, key, vig_mat) on an arbitrary text
Decode ==
    /\ pc = "start"
    /\ dec' = decode(msg, key, VigMatrixWrap_new)
    /\ pc' = "decoded"
    /\ UNCHANGED <<msg, key, enc, enc2>>
    /\ UNCHANGED tableVars

Next == Encode \/ DecodeEncoded \/ EncodeDoubled \/ Decode

Spec == Init /\ [][Next]_vars

(***************************************************************************)
(* Specification of VigMatrixWrap::new(), one row of the outer loop per    *)
(* step.                                                                   *)
(***************************************************************************)
TableInit ==
    /\ pc = "new"
    /\ msg = <<>>
    /\ key = <<>>
    /\ enc = NotRun
    /\ enc2 = NotRun
    /\ dec = NotRun
    /\ binding = <<>>
    /\ matrix = <<>>
    /\ r = 0
    /\ acc = 0

\* let binding = DictWrap::new().0; let mut acc = binding.iter().cycle();
TakeDict ==
    /\ pc = "new"
    /\ binding' = DictWrap_new
    /\ acc' = 0
    /\ r' = 0
    /\ matrix' = <<>>
    /\ pc' = "rows"
    /\ UNCHANGED cipherVars

\* one iteration of `for r in 0..matrix.0.len()`
BuildRow ==
    /\ pc = "rows"
    /\ r < SIZE
    /\ LET after == OneRow(binding, r, <<matrix, acc>>)
       IN  /\ matrix' = after[1]
           /\ acc' = after[2]
    /\ r' = r + 1
    /\ UNCHANGED <<pc, binding>>
    /\ UNCHANGED cipherVars

\* the loop is over: the matrix is returned
ReturnMatrix ==
    /\ pc = "rows"
    /\ r = SIZE
    /\ pc' = "built"
    /\ UNCHANGED tableVars
    /\ UNCHANGED cipherVars

TableNext == TakeDict \/ BuildRow \/ ReturnMatrix

TableSpec == TableInit /\ [][TableNext]_vars

(***************************************************************************)
(* Vocabulary of the properties.                                           *)
(***************************************************************************)
Alphabet == DictWrap_new

AlphabetSet == {Alphabet[i] : i \in 1..SIZE}

InAlphabet(ch) == ch \in AlphabetSet

\* The 0-based position of a symbol of the alphabet.
IndexOf(ch) == CHOOSE i \in 0..(SIZE - 1) : Alphabet[i + 1] = ch

Valid(s) == \A i \in 1..Len(s) : InAlphabet(s[i])

\* The key symbol that cyclic repetition puts at (1-based) position i.
KeyAt(k, i) == k[((i - 1) % Len(k)) + 1]

\* States in which encode(msg, key) has returned or aborted.
EncDone == pc \in {"encoded", "doubled", "roundtrip"}

\* The symbols that the rows filled so far hold in (1-based) column c.
ColumnSymbols(c) == {matrix[row][c] : row \in 1..Len(matrix)}

Returned(res) == res.kind \in {"Ok", "InvalidChar", "InvalidIndex"}

(***************************************************************************)
(* C1  Round trip: for every plaintext and every non-empty key over the    *)
(* alphabet, encode returns Ok(C) and decode(C, key) returns Ok(plaintext).*)
(***************************************************************************)
C1_RoundTrip ==
    (Valid(msg) /\ Valid(key) /\ key # <<>>) =>
        /\ EncDone => enc.kind = "Ok"
        /\ pc = "roundtrip" => dec = Ok(msg)

C1_Witness ==
    /\ pc = "roundtrip"
    /\ Valid(msg) /\ Valid(key)
    /\ Len(msg) = MaxMsgLen /\ Len(key) = 2
    /\ key[1] # key[2]
    /\ enc.kind = "Ok" /\ enc.val # msg
    /\ dec = Ok(msg)

(***************************************************************************)
(* C2  decode rejects a ciphertext that holds a character outside the      *)
(* alphabet: with a valid non-empty key it fails with the invalid-char     *)
(* error carrying the first such character, and never returns Ok.          *)
(***************************************************************************)
C2_DecodeRejectsInvalidCiphertext ==
    (pc = "decoded" /\ Valid(key) /\ key # <<>> /\ ~Valid(msg)) =>
        LET i == Min({j \in 1..Len(msg) : ~InAlphabet(msg[j])})
        IN  dec = InvalidChar(msg[i])

(***************************************************************************)
(* C3  (as stated) encode rejects every input in which any character of    *)
(* the plaintext or of the key, at any position of the key, is outside the *)
(* alphabet: it returns the invalid-char error with such a character.      *)
(***************************************************************************)
C3_EncodeRejectsAnyInvalidChar ==
    (EncDone /\ key # <<>> /\ (~Valid(msg) \/ ~Valid(key))) =>
        /\ enc.kind = "InvalidChar"
        /\ Len(enc.val) = 1
        /\ ~InAlphabet(enc.val[1])

(***************************************************************************)
(* C3  (amended) encode rejects every input in which a character of the    *)
(* plaintext, or a key character that cyclic repetition puts at a position *)
(* of the plaintext, is outside the alphabet: it returns the invalid-char  *)
(* error with a character outside the alphabet, and never Ok.              *)
(***************************************************************************)
C3_EncodeRejectsUsedInvalidChar ==
    (/\ EncDone
     /\ key # <<>>
     /\ \E i \in 1..Len(msg) : ~InAlphabet(msg[i]) \/ ~InAlphabet(KeyAt(key, i))) =>
        /\ enc.kind = "InvalidChar"
        /\ Len(enc.val) = 1
        /\ ~InAlphabet(enc.val[1])

C3_Witness ==
    /\ pc = "encoded"
    /\ Valid(msg) /\ Len(msg) = MaxMsgLen
    /\ Len(key) = 2 /\ InAlphabet(key[1]) /\ ~InAlphabet(key[2])
    /\ enc = InvalidChar(key[2])

(***************************************************************************)
(* C4  Key-length independence: for every plaintext and non-empty key,     *)
(* encode(msg, key) and encode(msg, key + key) return the same result,     *)
(* ciphertext or error.                                                    *)
(***************************************************************************)
C4_KeyLengthIndependence ==
    (pc = "doubled" /\ key # <<>>) => enc2 = enc

C4_Witness ==
    /\ pc = "doubled"
    /\ Len(key) = 2 /\ Len(msg) = Len(key)
    /\ key[1] # key[2]
    /\ enc.kind = "Ok"
    /\ enc2 = enc

(***************************************************************************)
(* C5  Encode result: for a plaintext and a non-empty key over the         *)
(* alphabet, encode returns Ok of exactly Len(msg) symbols, the one at     *)
(* position i being Alphabet[(index(key[i mod Len(key)]) + index(msg[i]))  *)
(* mod 192].                                                               *)
(***************************************************************************)
C5_EncodeClosedForm ==
    (EncDone /\ Valid(msg) /\ Valid(key) /\ key # <<>>) =>
        /\ enc.kind = "Ok"
        /\ Len(enc.val) = Len(msg)
        /\ \A i \in 1..Len(msg) :
              enc.val[i] = Alphabet[((IndexOf(KeyAt(key, i)) + IndexOf(msg[i])) % SIZE) + 1]

C5_Witness ==
    /\ pc = "encoded"
    /\ Valid(msg) /\ Valid(key)
    /\ Len(msg) = MaxMsgLen /\ Len(key) = 2
    /\ key[1] # key[2]
    /\ IndexOf(key[1]) + IndexOf(msg[1]) >= SIZE
    /\ enc.kind = "Ok"
    /\ enc.val[MaxMsgLen] = Alphabet[((IndexOf(key[1]) + IndexOf(msg[MaxMsgLen])) % SIZE) + 1]

(***************************************************************************)
(* C6  Table closed form: every row r that VigMatrixWrap::new() has filled *)
(* satisfies table[r][c] = Alphabet[(r + c) mod 192] for every column c,   *)
(* row 0 is the alphabet, and the returned table has 192 rows.             *)
(***************************************************************************)
C6_TableClosedForm ==
    /\ \A row \in 1..Len(matrix) :
          /\ Len(matrix[row]) = SIZE
          /\ \A c \in 1..SIZE :
                matrix[row][c] = Alphabet[(((row - 1) + (c - 1)) % SIZE) + 1]
    /\ Len(matrix) >= 1 => matrix[1] = Alphabet
    /\ pc = "built" => Len(matrix) = SIZE

C6_Witness ==
    /\ pc = "built"
    /\ Len(matrix) = SIZE
    /\ matrix[SIZE][SIZE] = Alphabet[SIZE - 1]
    /\ matrix[2][SIZE] = Alphabet[1]

(***************************************************************************)
(* C7  Table bijection: every row of the table holds each of the 192       *)
(* alphabet symbols exactly once, no column repeats a symbol, and every    *)
(* column of the returned table holds each symbol exactly once.            *)
(***************************************************************************)
C7_TableBijection ==
    /\ \A row \in 1..Len(matrix) :
          /\ Len(matrix[row]) = SIZE
          /\ {matrix[row][c] : c \in 1..SIZE} = AlphabetSet
          /\ Cardinality({matrix[row][c] : c \in 1..SIZE}) = SIZE
    /\ \A c \in 1..SIZE : Cardinality(ColumnSymbols(c)) = Len(matrix)
    /\ pc = "built" => \A c \in 1..SIZE : ColumnSymbols(c) = AlphabetSet

C7_Witness ==
    /\ pc = "built"
    /\ Len(matrix) = SIZE
    /\ ColumnSymbols(SIZE) = AlphabetSet
    /\ Cardinality(Matches(matrix[SIZE], 32)) = 1

(***************************************************************************)
(* C8  (as stated) Alphabet layout: the printable symbols sit at indices   *)
(* 0..189 in strictly increasing codepoint order, followed by line feed at *)
(* index 190 and carriage return at index 191.                             *)
(***************************************************************************)
C8_StrictlyIncreasing ==
    pc # "new" =>
        /\ Len(binding) = SIZE
        /\ \A i \in 1..(SIZE - 3) : binding[i] < binding[i + 1]
        /\ binding[SIZE - 1] = 10
        /\ binding[SIZE] = 13

(***************************************************************************)
(* C8  (amended) Alphabet layout: the printable symbols sit at indices     *)
(* 0..189, in strictly increasing codepoint order over indices 0..93 and   *)
(* over indices 95..189; index 94 holds the space, which is out of order   *)
(* (it follows '~'); line feed is at index 190 and carriage return at 191. *)
(***************************************************************************)
C8_IncreasingButSpace ==
    pc # "new" =>
        /\ Len(binding) = SIZE
        /\ \A i \in 1..93 : binding[i] < binding[i + 1]
        /\ binding[94] = 126
        /\ binding[95] = 32
        /\ binding[96] > binding[94]
        /\ \A i \in 96..(SIZE - 3) : binding[i] < binding[i + 1]
        /\ \A i \in 1..(SIZE - 2) : binding[i] >= 32 /\ binding[i] <= 255
        /\ binding[SIZE - 1] = 10
        /\ binding[SIZE] = 13

C8_Witness ==
    /\ pc = "rows"
    /\ binding[94] > binding[95]
    /\ binding[SIZE] = 13

(***************************************************************************)
(* C9  Single error kind: with a non-empty key, encode and decode return   *)
(* Ok or the invalid-char error only; the invalid-index error is never     *)
(* returned, the column found by decode's row scan being within 0..191.    *)
(***************************************************************************)
C9_OnlyInvalidChar ==
    key # <<>> =>
        /\ enc.kind \in {"NotRun", "Ok", "InvalidChar"}
        /\ enc2.kind \in {"NotRun", "Ok", "InvalidChar"}
        /\ dec.kind \in {"NotRun", "Ok", "InvalidChar"}
        /\ \A i \in 1..Len(msg) : \A j \in 1..Len(key) :
              InAlphabet(key[j]) =>
                  scan_row(VigMatrixWrap_new, IndexOf(key[j]), msg[i]) \in 0..(SIZE - 1)

C9_Witness ==
    /\ pc = "decoded"
    /\ Valid(key) /\ Len(key) = 2
    /\ Len(msg) = MaxMsgLen
    /\ \A i \in 1..Len(msg) : ~InAlphabet(msg[i])
    /\ dec.kind = "Ok"

(***************************************************************************)
(* C10  Empty key: encode and decode with an empty key return only when    *)
(* the text is empty too, and then Ok of the empty string; with a          *)
(* non-empty text the call aborts by panic.                                *)
(***************************************************************************)
C10_EmptyKey ==
    key = <<>> =>
        /\ EncDone => (IF msg = <<>> THEN enc = Ok(<<>>) ELSE enc = Panic)
        /\ pc = "decoded" => (IF msg = <<>> THEN dec = Ok(<<>>) ELSE dec = Panic)
        /\ (EncDone /\ Returned(enc)) => msg = <<>>
        /\ (pc = "decoded" /\ Returned(dec)) => msg = <<>>

C10_Witness ==
    /\ pc = "decoded"
    /\ key = <<>>
    /\ Len(msg) = MaxMsgLen
    /\ dec = Panic

====
